---- MODULE Spec2Model ----
(***************************************************************************)
(* Local job scheduler and job lifecycle of sepex: SubprocessJob and       *)
(* DockerJob (Create, Run, Kill, Close, NewStatusUpdate), the QueueWorker  *)
(* and the completion routine, with the ResourcePool, PendingJobs and      *)
(* ActiveJobs they share.  Resources are counted in whole units.  Every    *)
(* access to a field that the code shares without a lock (Status, the     *)
(* context, ContainerID) is a step of its own.                             *)
(***************************************************************************)
EXTENDS Integers, Sequences, FiniteSets, TLC

\* ------------------------------------------------------------------ bounds
\* MAX_LOCAL_CPUS and MAX_LOCAL_MEMORY of the modelled server
TotalCPUs == 2
TotalMemory == 2
\* dismiss requests made in the one-job workload
MaxDismissals == 2

\* status messages sent in the status-channel workload
MaxSends == 3
\* largest minOccurs and maxOccurs of a declared input
MaxOccursBound == 2
\* longest sequence supplied as the value of an input
MaxSeqLen == 3

\* --------------------------------------------------------------- constants
\* capacity of MessageQueue.JobDone
JobDoneCap == 1
\* capacity of MessageQueue.StatusChan
StatusChanCap == 500

\* The job ids the handlers hand out, in this order.
Jobs == {1, 2, 3}

\* The yaml files of the plugins directory, in the order of the glob.
Files == {1, 2}

ACCEPTED == "accepted"
RUNNING == "running"
SUCCESSFUL == "successful"
FAILED == "failed"
DISMISSED == "dismissed"
NOSTATUS == "none"

Terminal == {SUCCESSFUL, FAILED, DISMISSED}
Statuses == {NOSTATUS, ACCEPTED, RUNNING} \cup Terminal

Kinds == {"subprocess", "docker"}

\* The resources a validated process can ask for: a small job, and one that
\* needs the whole memory of the pool.
Small == [cpus |-> 1, mem |-> 1]
Large == [cpus |-> 1, mem |-> TotalMemory]
NoRes == [cpus |-> 0, mem |-> 0]

\* An execution request: sync or async, of a process of one host type, with
\* the resources of that process.
Requests == [sync : BOOLEAN, kind : Kinds, res : {Small, Large}]

VARIABLES
    menu,          \* the requests the client of job j chooses from
    requests,      \* execution requests the clients still make
    dismissals,    \* dismiss requests the clients still make
    hpc,           \* execution handler of job j: where the request is
    isSync,        \* j.IsSync
    kind,          \* host type of the job's process
    res,           \* j.Resources
    hres,          \* status the sync handler read when its wait returned
    jobStore,      \* jobs with a record in the job store (DB.addJob)
    status,        \* j.Status
    rpc,           \* position of the Run goroutine
    ctxDone,       \* j.ctx is cancelled
    closeOnce,     \* j.closeOnce: fresh, body running (by whom), done
    closePending,  \* goroutines "go j.Close()" spawned by Kill, not yet run
    closeBodies,   \* number of executions of the Close body
    wgRun,         \* j.wgRun counter
    child,         \* the subprocess or container of the job
    idSet,         \* j.PID / j.ContainerID has been stored
    kpc,           \* position of the dismiss request on job j
    killOk,        \* some Kill of job j returned nil
    unqueued,      \* jobs a dismiss request took out of PendingJobs
    reserves,      \* successful reservations made for job j
    releases,      \* releases made for job j
    runs,          \* launches of j.Run
    used,          \* ResourcePool: used cpus and memory
    queued,        \* ResourcePool: queued cpus and memory (advisory)
    releaseSignal, \* ResourcePool release channel holds a signal
    pending,       \* PendingJobs, head first
    activeJobs,    \* ActiveJobs
    doneChan,      \* MessageQueue.JobDone
    workSignal,    \* QueueWorker.workSignal holds a signal
    qpc,           \* position of the QueueWorker goroutine
    qjob,          \* the job the QueueWorker reserved for
    shutdown,      \* QueueWorker.shutdown is closed
    statusChan,    \* MessageQueue.StatusChan
    sm,            \* the message StatusUpdateRoutine has taken and not applied
    sent,          \* the status messages sent so far, in the order of sending
    applied,       \* the status messages applied so far, in the order applied
    metaData,      \* "go j.WriteMetaData()" launched for job j
    mdpc,          \* where the WriteMetaData goroutine of job j is
    wg,            \* j.wg, the wait-group of the job's auxiliary tasks
    fpc,           \* where the finisher goroutine spawned by Close is
    panicked,      \* Run of job j panicked and its deferred recover ran
    spc,           \* where the caller of QueueWorker.Stop is
    plugins,       \* the process specs in the plugins directory, by file
    env,           \* the environment variables that are set
    nextFile,      \* LoadProcesses: the file it validates next
    processes,     \* LoadProcesses: the processes registered so far
    rejected,      \* LoadProcesses: the files it logged and skipped
    loaded,        \* LoadProcesses has returned nil
    declared,      \* VerifyInputs: p.Inputs of the process
    inp,           \* VerifyInputs: the inputs of the request
    verr           \* VerifyInputs: what it returned

workVars == <<menu, requests, dismissals>>
reqVars == <<isSync, kind, res>>
handlerVars == <<hpc, hres, jobStore>>
closeVars == <<closeOnce, closePending, closeBodies>>
killVars == <<kpc, killOk, unqueued>>
countVars == <<reserves, releases, runs>>
poolVars == <<used, queued, releaseSignal>>
workerVars == <<workSignal, qpc, qjob, shutdown>>
busVars == <<statusChan, sm, sent, applied>>
loadVars == <<plugins, env, nextFile, processes, rejected, loaded>>
inputVars == <<declared, inp, verr>>
procVars == <<loadVars, inputVars>>
auxVars == <<mdpc, wg, fpc, panicked, spc>>
vars == <<workVars, reqVars, handlerVars, status, rpc, ctxDone, closeVars,
          wgRun, child, idSet, killVars, countVars, poolVars, pending,
          activeJobs, doneChan, workerVars, busVars, metaData, procVars,
          auxVars>>

\* ------------------------------------------------------------ ResourcePool
Fits(u, r) ==
    /\ u.cpus + r.cpus <= TotalCPUs
    /\ u.mem + r.mem <= TotalMemory

Plus(u, r) == [cpus |-> u.cpus + r.cpus, mem |-> u.mem + r.mem]

Clamp(n) == IF n < 0 THEN 0 ELSE n

Minus(u, r) == [cpus |-> Clamp(u.cpus - r.cpus), mem |-> Clamp(u.mem - r.mem)]

\* TryReserve(r) returned true: check and commit in one critical section.
TryReserve(r) ==
    /\ Fits(used, r)
    /\ used' = Plus(used, r)

\* TryReserve(r) returned false: nothing changes.
TryReserveFails(r) == ~Fits(used, r)

\* A Release that does not signal the scheduler.
ReleaseWithoutSignal(r) ==
    /\ used' = Minus(used, r)
    /\ UNCHANGED releaseSignal

\* Release(r): used -= r, clamped at zero, and one non-blocking signal.
Release(r) ==
    /\ used' = Minus(used, r)
    /\ releaseSignal' = TRUE

\* ------------------------------------------------------------ PendingJobs
\* Remove(id): the entry leaves, the order of the others is kept.
RemoveFrom(q, j) == SelectSeq(q, LAMBDA x : x # j)

InPending(j) == \E i \in 1..Len(pending) : pending[i] = j

\* -------------------------------------------------------- NewStatusUpdate
\* The switch on j.Status that opens NewStatusUpdate: a terminal status is kept.
NSUSkips(s) == s \in Terminal

\* The assignment to j.Status, made after the switch let the call pass.
NSUWrite(j, s) == status' = [status EXCEPT ![j] = s]

\* A StatusMessage: the job and its new status.
StatusMessages == [job : Jobs, status : {RUNNING, SUCCESSFUL, FAILED}]

\* The consumer holds no message.
NoMsg == [job |-> 0, status |-> NOSTATUS]

\* The state after NewRESTHander and QueueWorker.Start: nothing submitted.
Start ==
    /\ hpc = [j \in Jobs |-> "idle"]
    /\ isSync = [j \in Jobs |-> FALSE]
    /\ kind = [j \in Jobs |-> "subprocess"]
    /\ res = [j \in Jobs |-> NoRes]
    /\ hres = [j \in Jobs |-> NOSTATUS]
    /\ jobStore = {}
    /\ status = [j \in Jobs |-> NOSTATUS]
    /\ rpc = [j \in Jobs |-> "none"]
    /\ ctxDone = [j \in Jobs |-> FALSE]
    /\ closeOnce = [j \in Jobs |-> "fresh"]
    /\ closePending = [j \in Jobs |-> 0]
    /\ closeBodies = [j \in Jobs |-> 0]
    /\ wgRun = [j \in Jobs |-> 0]
    /\ child = [j \in Jobs |-> "none"]
    /\ idSet = [j \in Jobs |-> FALSE]
    /\ kpc = [j \in Jobs |-> "idle"]
    /\ killOk = [j \in Jobs |-> FALSE]
    /\ unqueued = {}
    /\ reserves = [j \in Jobs |-> 0]
    /\ releases = [j \in Jobs |-> 0]
    /\ runs = [j \in Jobs |-> 0]
    /\ used = NoRes
    /\ queued = NoRes
    /\ releaseSignal = FALSE
    /\ pending = <<>>
    /\ activeJobs = {}
    /\ doneChan = <<>>
    /\ workSignal = FALSE
    /\ qpc = "select"
    /\ qjob = 0
    /\ shutdown = FALSE
    /\ statusChan = <<>>
    /\ sm = NoMsg
    /\ sent = <<>>
    /\ applied = <<>>
    /\ metaData = [j \in Jobs |-> 0]
    /\ mdpc = [j \in Jobs |-> "none"]
    /\ wg = [j \in Jobs |-> 0]
    /\ fpc = [j \in Jobs |-> "none"]
    /\ panicked = [j \in Jobs |-> FALSE]
    /\ spc = "idle"

\* -------------------------------------------------------- process specs
\* Process ids and env-var names are strings: sequences of characters.
Ids == {<<"p">>, <<"p", "a">>}

Names == {<<"P", "_", "A">>, <<"P", "A">>, <<"P", "A", "_">>, <<"p", "_", "A">>}

\* strings.ToUpper, character by character.
UpperChar(c) == CASE c = "p" -> "P" [] c = "a" -> "A" [] OTHER -> c

ToUpper(str) == [i \in 1..Len(str) |-> UpperChar(str[i])]

\* strings.HasPrefix
HasPrefix(str, prefix) ==
    /\ Len(prefix) <= Len(str)
    /\ SubSeq(str, 1, Len(prefix)) = prefix

HostTypes == {"docker", "subprocess", "aws-batch"}

\* maxResources of a process spec: within the limits of the server, above
\* its cpus, above its memory.
SpecResources ==
    {Small, [cpus |-> TotalCPUs + 1, mem |-> 1], [cpus |-> 1, mem |-> TotalMemory + 1]}

\* A process spec as MarshallProcess returns it.  wellFormed stands for the
\* checks of Validate on the other fields: id, title and version are set,
\* the options and the host type are valid ones, image or job queue are
\* given, every input and output has an id.
ProcessSpecs ==
    [id : Ids, wellFormed : BOOLEAN, hostType : HostTypes,
     envVars : {<<>>} \cup {<<n>> : n \in Names}, res : SpecResources]

\* VerifyLocalEnvars from its k-th env var on: the first name without the
\* upper-cased process id as a prefix is an error; names that are not set
\* are collected and are an error at the end.
RECURSIVE VerifyEnvarsFrom(_, _, _, _)
VerifyEnvarsFrom(p, e, k, missing) ==
    IF k > Len(p.envVars)
      THEN IF missing # <<>> THEN "error" ELSE "nil"
      ELSE IF ~HasPrefix(p.envVars[k], ToUpper(p.id))
             THEN "error"
             ELSE VerifyEnvarsFrom(p, e, k + 1,
                    IF p.envVars[k] \in e THEN missing
                    ELSE Append(missing, p.envVars[k]))

VerifyLocalEnvars(p, e) == VerifyEnvarsFrom(p, e, 1, <<>>)

\* What Validate can return for a spec: an error for a malformed spec or a
\* refused env var; for a docker process the controller, the image and the
\* volumes may fail besides.
Validate(p, e) ==
    IF ~p.wellFormed THEN {"error"}
    ELSE IF VerifyLocalEnvars(p, e) # "nil" THEN {"error"}
    ELSE IF p.hostType = "docker" THEN {"nil", "error"}
    ELSE {"nil"}

\* The job specifications start after the processes are loaded: nothing of
\* the loading is left to do.
NoPlugins ==
    /\ plugins = <<>>
    /\ env = {}
    /\ nextFile = 1
    /\ processes = <<>>
    /\ rejected = {}
    /\ loaded = TRUE

\* LoadProcesses takes the next file: a spec that fails validation is logged
\* and skipped, a valid one is appended to the list.
LoadNext ==
    /\ ~loaded
    /\ nextFile \in Files
    /\ \E r \in Validate(plugins[nextFile], env) :
          IF r = "error"
            THEN /\ rejected' = rejected \cup {nextFile}
                 /\ UNCHANGED processes
            ELSE /\ processes' = Append(processes, plugins[nextFile])
                 /\ UNCHANGED rejected
    /\ nextFile' = nextFile + 1
    /\ UNCHANGED <<plugins, env, loaded, inputVars>>
    /\ UNCHANGED <<workVars, reqVars, handlerVars, status, rpc, ctxDone,
                   closeVars, wgRun, child, idSet, killVars, countVars,
                   poolVars, pending, activeJobs, doneChan, workerVars,
                   busVars, metaData, auxVars>>

\* LoadProcesses has been through the files: it returns the list and nil,
\* and NewRESTHander stores the list.
LoadReturn ==
    /\ ~loaded
    /\ nextFile \notin Files
    /\ loaded' = TRUE
    /\ UNCHANGED <<plugins, env, nextFile, processes, rejected, inputVars>>
    /\ UNCHANGED <<workVars, reqVars, handlerVars, status, rpc, ctxDone,
                   closeVars, wgRun, child, idSet, killVars, countVars,
                   poolVars, pending, activeJobs, doneChan, workerVars,
                   busVars, metaData, auxVars>>

\* No execution request is being verified.
NoExecutionInputs ==
    /\ declared = <<>>
    /\ inp = <<>>
    /\ verr = "none"

\* ----------------------------------------------------------- VerifyInputs
InputIds == {"a", "b"}

\* The keys a request can supply: the declared ids and one more.
InputKeys == InputIds \cup {"c"}

\* An entry of p.Inputs.
InputDecls ==
    [id : InputIds, minOccurs : 0..MaxOccursBound, maxOccurs : 0..MaxOccursBound]

\* A supplied value: a sequence ([]interface{}) of some length, or any
\* other value.
InputValues ==
    {[isSeq |-> FALSE, len |-> 0]}
        \cup {[isSeq |-> TRUE, len |-> n] : n \in 0..MaxSeqLen}

\* An occurrence count that ignores the length of a sequence.
OccurrencesAlwaysOne(v) == 1

\* The type switch of VerifyInputs: len(v) for a sequence, 1 otherwise.
Occurrences(v) == IF v.isSeq THEN v.len ELSE 1

\* The first loop of VerifyInputs: requestInp[i.ID] is set for each entry of
\* p.Inputs in turn, a later entry replacing an earlier one of the same id.
RECURSIVE RequestInpFrom(_, _, _)
RequestInpFrom(decl, k, m) ==
    IF k > Len(decl)
      THEN m
      ELSE RequestInpFrom(decl, k + 1,
             [x \in DOMAIN m \cup {decl[k].id} |->
                IF x = decl[k].id
                  THEN [occur |-> 0, minOccur |-> decl[k].minOccurs,
                        maxOccur |-> decl[k].maxOccurs]
                  ELSE m[x]])

RequestInp(decl) == RequestInpFrom(decl, 1, <<>>)

\* The second loop, when every supplied key is declared: the occurrences of
\* the supplied keys are recorded.
Counted(r, in) ==
    [x \in DOMAIN r |->
        IF x \in DOMAIN in
          THEN [r[x] EXCEPT !.occur = Occurrences(in[x])]
          ELSE r[x]]

\* VerifyInputs: an error for a supplied key that is not declared, else an
\* error for an occurrence count out of its range, else nil.
VerifyInputs(decl, in) ==
    LET r == RequestInp(decl)
    IN  IF \E k \in DOMAIN in : k \notin DOMAIN r
          THEN "error"
          ELSE LET c == Counted(r, in)
               IN  IF \E id \in DOMAIN c :
                         \/ c[id].maxOccur > 0 /\ c[id].occur > c[id].maxOccur
                         \/ c[id].occur < c[id].minOccur
                     THEN "error"
                     ELSE "nil"

\* The execution handler verifies the inputs of a request.
VerifyInputsCall ==
    /\ verr = "none"
    /\ verr' = VerifyInputs(declared, inp)
    /\ UNCHANGED <<declared, inp, loadVars>>
    /\ UNCHANGED <<workVars, reqVars, handlerVars, status, rpc, ctxDone,
                   closeVars, wgRun, child, idSet, killVars, countVars,
                   poolVars, pending, activeJobs, doneChan, workerVars,
                   busVars, metaData, auxVars>>

\* ------------------------------------------------------ execution handler
\* Job ids are handed out in order.
IdInOrder(j) == IF j = 1 THEN TRUE ELSE hpc[j - 1] # "idle"

\* A Create that reserves for async jobs too.
CreateReservesForAll(sync) == TRUE

\* A Create that reserves for no job.
CreateReservesNothing(sync) == FALSE

\* Create reserves at creation time for sync jobs only.
CreateReserves(sync) == sync

\* A Create whose cleanup forgets the reservation.
CreateReleasesNothing(sync) == FALSE

\* Create's deferred cleanup gives the reservation back when creation failed.
CreateReleasesOnError(sync) == sync

\* A Create that registers its cleanup before it reserves: a refused sync job
\* releases what it never held.
CreateReserveCleansRefusal(j) ==
    /\ hpc[j] = "idle"
    /\ IdInOrder(j)
    /\ requests > 0
    /\ requests' = requests - 1
    /\ \E c \in menu[j] :
        /\ isSync' = [isSync EXCEPT ![j] = c.sync]
        /\ kind' = [kind EXCEPT ![j] = c.kind]
        /\ res' = [res EXCEPT ![j] = c.res]
        /\ IF CreateReserves(c.sync)
             THEN \/ /\ TryReserve(c.res)
                     /\ reserves' = [reserves EXCEPT ![j] = @ + 1]
                     /\ hpc' = [hpc EXCEPT ![j] = "creating"]
                     /\ UNCHANGED releaseSignal
                  \/ /\ TryReserveFails(c.res)
                     /\ hpc' = [hpc EXCEPT ![j] = "refused"]
                     /\ Release(c.res)
                     /\ UNCHANGED reserves
             ELSE /\ hpc' = [hpc EXCEPT ![j] = "creating"]
                  /\ UNCHANGED <<used, reserves, releaseSignal>>
    /\ UNCHANGED <<busVars, metaData, auxVars>>
    /\ UNCHANGED procVars
    /\ UNCHANGED <<menu, dismissals, hres, jobStore, status, rpc, ctxDone,
                   closeVars, wgRun, child, idSet, killVars, releases, runs, queued,
                   pending, activeJobs, doneChan, workerVars>>

\* A request for a validated process arrives and the handler calls Create,
\* which runs up to the reservation: a sync job that does not fit is refused.
CreateReserve(j) ==
    /\ hpc[j] = "idle"
    /\ IdInOrder(j)
    /\ requests > 0
    /\ requests' = requests - 1
    /\ \E c \in menu[j] :
        /\ isSync' = [isSync EXCEPT ![j] = c.sync]
        /\ kind' = [kind EXCEPT ![j] = c.kind]
        /\ res' = [res EXCEPT ![j] = c.res]
        /\ IF CreateReserves(c.sync)
             THEN \/ /\ TryReserve(c.res)
                     /\ reserves' = [reserves EXCEPT ![j] = @ + 1]
                     /\ hpc' = [hpc EXCEPT ![j] = "creating"]
                  \/ /\ TryReserveFails(c.res)
                     /\ hpc' = [hpc EXCEPT ![j] = "refused"]
                     /\ UNCHANGED <<used, reserves>>
             ELSE /\ hpc' = [hpc EXCEPT ![j] = "creating"]
                  /\ UNCHANGED <<used, reserves>>
    /\ UNCHANGED <<busVars, metaData, auxVars>>
    /\ UNCHANGED procVars
    /\ UNCHANGED <<menu, dismissals, hres, jobStore, status, rpc, ctxDone,
                   closeVars, wgRun, child, idSet, killVars, releases, runs, queued,
                   releaseSignal, pending, activeJobs, doneChan, workerVars>>

\* The rest of Create fails (initLogger or DB.addJob): the deferred cleanup
\* releases a sync job's reservation and Create returns the error.
CreateFails(j) ==
    /\ hpc[j] = "creating"
    /\ hpc' = [hpc EXCEPT ![j] = "failed"]
    /\ IF CreateReleasesOnError(isSync[j])
         THEN /\ Release(res[j])
              /\ releases' = [releases EXCEPT ![j] = @ + 1]
         ELSE UNCHANGED <<used, releaseSignal, releases>>
    /\ UNCHANGED <<busVars, metaData, auxVars>>
    /\ UNCHANGED procVars
    /\ UNCHANGED <<workVars, reqVars, hres, jobStore, status, rpc, ctxDone,
                   closeVars, wgRun, child, idSet, killVars, reserves, runs, queued,
                   pending, activeJobs, doneChan, workerVars>>

\* The rest of Create succeeds: job record added, status accepted, wgRun.Add(1).
CreateSucceeds(j) ==
    /\ hpc[j] = "creating"
    /\ hpc' = [hpc EXCEPT ![j] = "created"]
    /\ jobStore' = jobStore \cup {j}
    /\ IF NSUSkips(status[j]) THEN UNCHANGED status ELSE NSUWrite(j, ACCEPTED)
    /\ wgRun' = [wgRun EXCEPT ![j] = @ + 1]
    /\ UNCHANGED <<busVars, metaData, auxVars>>
    /\ UNCHANGED procVars
    /\ UNCHANGED <<workVars, reqVars, hres, rpc, ctxDone, closeVars, child,
                   idSet, killVars, countVars, poolVars, pending, activeJobs,
                   doneChan, workerVars>>

\* NotifyNewJob: a non-blocking send on the one-slot workSignal channel.
NotifyNewJob == workSignal' = TRUE

\* The handler registers the created job; a sync job is run at once and waited
\* for, an async job is queued and the QueueWorker notified.
Dispatch(j) ==
    /\ hpc[j] = "created"
    /\ activeJobs' = activeJobs \cup {j}
    /\ IF isSync[j]
         THEN /\ rpc' = [rpc EXCEPT ![j] = "start"]
              /\ runs' = [runs EXCEPT ![j] = @ + 1]
              /\ hpc' = [hpc EXCEPT ![j] = "waiting"]
              /\ UNCHANGED <<pending, queued, workSignal, shutdown>>
         ELSE /\ pending' = Append(pending, j)
              /\ queued' = Plus(queued, res[j])
              /\ NotifyNewJob
              /\ hpc' = [hpc EXCEPT ![j] = "returned"]
              /\ UNCHANGED <<rpc, runs>>
    /\ UNCHANGED <<busVars, metaData, auxVars>>
    /\ UNCHANGED procVars
    /\ UNCHANGED <<workVars, reqVars, hres, jobStore, status, ctxDone,
                   closeVars, wgRun, child, idSet, killVars, reserves,
                   releases, used, releaseSignal, doneChan, qpc, qjob, shutdown>>

\* A wait that returns without looking at wgRun.
WaitReturnsAtOnce(j) ==
    /\ hpc[j] = "waiting"
    /\ hpc' = [hpc EXCEPT ![j] = "returned"]
    /\ hres' = [hres EXCEPT ![j] = status[j]]
    /\ UNCHANGED <<busVars, metaData, auxVars>>
    /\ UNCHANGED procVars
    /\ UNCHANGED <<workVars, reqVars, jobStore, status, rpc, ctxDone,
                   closeVars, wgRun, child, idSet, killVars, countVars,
                   poolVars, pending, activeJobs, doneChan, workerVars>>

\* WaitForRunCompletion returns once wgRun is zero; the handler then reads the
\* job's status for the response.
WaitForRunCompletion(j) ==
    /\ hpc[j] = "waiting"
    /\ wgRun[j] = 0
    /\ hpc' = [hpc EXCEPT ![j] = "returned"]
    /\ hres' = [hres EXCEPT ![j] = status[j]]
    /\ UNCHANGED <<busVars, metaData, auxVars>>
    /\ UNCHANGED procVars
    /\ UNCHANGED <<workVars, reqVars, jobStore, status, rpc, ctxDone,
                   closeVars, wgRun, child, idSet, killVars, countVars,
                   poolVars, pending, activeJobs, doneChan, workerVars>>

\* -------------------------------------------------------------------- Run
\* Run up to the start of the child.  The start fails (Run panics on its
\* command, the log file, the docker controller or the image is unavailable,
\* Start or ContainerRun returns an error, as they do on a cancelled context)
\* and Run asks for FAILED; or the child starts (a subprocess records its PID)
\* and Run asks for RUNNING.  The terminal check of NewStatusUpdate is made
\* here, its write in the next step.
RunStart(j) ==
    /\ rpc[j] = "start"
    /\ \/ /\ rpc' = [rpc EXCEPT ![j] =
                        IF NSUSkips(status[j]) THEN "release" ELSE "wrFailed"]
          /\ UNCHANGED <<child, idSet>>
       \/ /\ ~ctxDone[j]
          /\ child' = [child EXCEPT ![j] = "alive"]
          /\ idSet' = [idSet EXCEPT ![j] = (kind[j] = "subprocess")]
          /\ rpc' = [rpc EXCEPT ![j] =
                        IF NSUSkips(status[j]) THEN "cancelChk" ELSE "wrRunning"]
    /\ UNCHANGED <<busVars, metaData, auxVars>>
    /\ UNCHANGED procVars
    /\ UNCHANGED <<workVars, reqVars, handlerVars, status, ctxDone, closeVars,
                   wgRun, killVars, countVars, poolVars, pending, activeJobs,
                   doneChan, workerVars>>

\* Run panics: before the child is started, after it is, or while waiting
\* for it.  The deferred function recovers and calls NewStatusUpdate(FAILED),
\* whose terminal check is made here; the rest of the cleanup follows.
RunPanics(j) ==
    /\ rpc[j] \in {"start", "cancelChk", "wait"}
    /\ panicked' = [panicked EXCEPT ![j] = TRUE]
    /\ rpc' = [rpc EXCEPT ![j] =
                  IF NSUSkips(status[j]) THEN "release" ELSE "wrFailed"]
    /\ UNCHANGED <<workVars, reqVars, handlerVars, status, ctxDone, closeVars,
                   wgRun, child, idSet, killVars, countVars, poolVars, pending,
                   activeJobs, doneChan, workerVars, busVars, metaData,
                   procVars, mdpc, wg, fpc, spc>>

\* A Run that does not record RUNNING.
RunSkipsRunning(j) ==
    /\ rpc[j] = "wrRunning"
    /\ rpc' = [rpc EXCEPT ![j] = "cancelChk"]
    /\ UNCHANGED <<busVars, metaData, auxVars>>
    /\ UNCHANGED procVars
    /\ UNCHANGED <<workVars, reqVars, handlerVars, status, ctxDone, closeVars,
                   wgRun, child, idSet, killVars, countVars, poolVars, pending,
                   activeJobs, doneChan, workerVars>>

\* NewStatusUpdate(RUNNING) writes the status.
RunWriteRunning(j) ==
    /\ rpc[j] = "wrRunning"
    /\ NSUWrite(j, RUNNING)
    /\ rpc' = [rpc EXCEPT ![j] = "cancelChk"]
    /\ UNCHANGED <<busVars, metaData, auxVars>>
    /\ UNCHANGED procVars
    /\ UNCHANGED <<workVars, reqVars, handlerVars, ctxDone, closeVars, wgRun,
                   child, idSet, killVars, countVars, poolVars, pending,
                   activeJobs, doneChan, workerVars>>

\* A container job stores its ContainerID; then the non-blocking look at
\* ctx.Done(): a cancelled job returns without waiting for its child.
RunCancelCheck(j) ==
    /\ rpc[j] = "cancelChk"
    /\ idSet' = [idSet EXCEPT ![j] = TRUE]
    /\ rpc' = [rpc EXCEPT ![j] = IF ctxDone[j] THEN "release" ELSE "wait"]
    /\ UNCHANGED <<busVars, metaData, auxVars>>
    /\ UNCHANGED procVars
    /\ UNCHANGED <<workVars, reqVars, handlerVars, status, ctxDone, closeVars,
                   wgRun, child, killVars, countVars, poolVars, pending,
                   activeJobs, doneChan, workerVars>>

\* execCmd.Wait / ContainerWait returned an error or a non-zero exit code.
WaitFailed(j) ==
    \/ child[j] = "exitErr"
    \/ ctxDone[j] /\ (kind[j] = "docker" \/ child[j] = "exit0")

\* execCmd.Wait / ContainerWait returned a clean exit.
WaitSucceeded(j) == child[j] = "exit0"

\* After a failed wait a subprocess job that is already DISMISSED returns at
\* once; otherwise, and for a container job always, FAILED is asked for.
WaitErrorReturns(j) == kind[j] = "subprocess" /\ status[j] = DISMISSED

\* "go j.WriteMetaData()", the last statement of Run after a clean exit.
WriteMetaData(j) == metaData' = [metaData EXCEPT ![j] = @ + 1]

\* The wait for the child returns; Run asks for FAILED or SUCCESSFUL.  When
\* NewStatusUpdate(SUCCESSFUL) finds a terminal status it returns at once and
\* Run goes on to start the metadata task.
RunWait(j) ==
    /\ rpc[j] = "wait"
    /\ \/ /\ WaitFailed(j)
          /\ rpc' = [rpc EXCEPT ![j] =
                        IF WaitErrorReturns(j) \/ NSUSkips(status[j])
                          THEN "release" ELSE "wrFailed"]
          /\ UNCHANGED metaData
       \/ /\ WaitSucceeded(j)
          /\ IF NSUSkips(status[j])
               THEN /\ rpc' = [rpc EXCEPT ![j] = "release"]
                    /\ WriteMetaData(j)
               ELSE /\ rpc' = [rpc EXCEPT ![j] = "wrSuccessful"]
                    /\ UNCHANGED metaData
    /\ UNCHANGED <<busVars, auxVars>>
    /\ UNCHANGED procVars
    /\ UNCHANGED <<workVars, reqVars, handlerVars, status, ctxDone, closeVars,
                   wgRun, child, idSet, killVars, countVars, poolVars, pending,
                   activeJobs, doneChan, workerVars>>

\* NewStatusUpdate(FAILED) writes the status.
RunWriteFailed(j) ==
    /\ rpc[j] = "wrFailed"
    /\ NSUWrite(j, FAILED)
    /\ rpc' = [rpc EXCEPT ![j] = "release"]
    /\ UNCHANGED <<busVars, metaData, auxVars>>
    /\ UNCHANGED procVars
    /\ UNCHANGED <<workVars, reqVars, handlerVars, ctxDone, closeVars, wgRun,
                   child, idSet, killVars, countVars, poolVars, pending,
                   activeJobs, doneChan, workerVars>>

\* NewStatusUpdate(SUCCESSFUL) writes the status; Run starts the metadata task.
RunWriteSuccessful(j) ==
    /\ rpc[j] = "wrSuccessful"
    /\ NSUWrite(j, SUCCESSFUL)
    /\ WriteMetaData(j)
    /\ rpc' = [rpc EXCEPT ![j] = "release"]
    /\ UNCHANGED <<busVars, auxVars>>
    /\ UNCHANGED procVars
    /\ UNCHANGED <<workVars, reqVars, handlerVars, ctxDone, closeVars, wgRun,
                   child, idSet, killVars, countVars, poolVars, pending,
                   activeJobs, doneChan, workerVars>>

\* A cleanup that gives the resources back only when the job was not cancelled.
RunReleaseUnlessCancelled(j) ==
    /\ rpc[j] = "release"
    /\ IF ctxDone[j]
         THEN UNCHANGED <<used, releaseSignal, releases>>
         ELSE /\ Release(res[j])
              /\ releases' = [releases EXCEPT ![j] = @ + 1]
    /\ rpc' = [rpc EXCEPT ![j] = "close"]
    /\ UNCHANGED <<busVars, metaData, auxVars>>
    /\ UNCHANGED procVars
    /\ UNCHANGED <<workVars, reqVars, handlerVars, status, ctxDone, closeVars,
                   wgRun, child, idSet, killVars, reserves, runs, queued,
                   pending,
                   activeJobs, doneChan, workerVars>>

\* Run's deferred cleanup: ResourcePool.Release of the job's resources.
RunRelease(j) ==
    /\ rpc[j] = "release"
    /\ Release(res[j])
    /\ releases' = [releases EXCEPT ![j] = @ + 1]
    /\ rpc' = [rpc EXCEPT ![j] = "close"]
    /\ UNCHANGED <<busVars, metaData, auxVars>>
    /\ UNCHANGED procVars
    /\ UNCHANGED <<workVars, reqVars, handlerVars, status, ctxDone, closeVars,
                   wgRun, child, idSet, killVars, reserves, runs, queued,
                   pending,
                   activeJobs, doneChan, workerVars>>

\* ------------------------------------------------------------------ Close
\* A Close without the latch: every caller executes the body.
OnceAdmitsAll(j) == TRUE

\* closeOnce.Do lets this caller execute the body.
OnceAdmits(j) == closeOnce[j] = "fresh"

\* The Close body up to the send on DoneChan, executed by `who`: the context
\* is cancelled; a container job with a ContainerID fetches the logs and
\* removes the container (or cannot create the docker controller), and gives
\* the body up when the log file cannot be created.
CloseBody(j, who) ==
    /\ closeBodies' = [closeBodies EXCEPT ![j] = @ + 1]
    /\ ctxDone' = [ctxDone EXCEPT ![j] = TRUE]
    /\ \/ /\ closeOnce' = [closeOnce EXCEPT ![j] = who]
          /\ IF kind[j] = "docker" /\ idSet[j]
               THEN \/ child' = [child EXCEPT ![j] = "removed"]
                    \/ UNCHANGED child
               ELSE UNCHANGED child
       \/ /\ kind[j] = "docker" /\ idSet[j]
          /\ closeOnce' = [closeOnce EXCEPT ![j] = "done"]
          /\ UNCHANGED child

\* Close called by `who`: the body is executed by the first caller only.
Close(j, who) ==
    IF OnceAdmits(j)
      THEN CloseBody(j, who)
      ELSE UNCHANGED <<closeBodies, ctxDone, closeOnce, child>>

\* The send on DoneChan that ends the Close body (the finisher is spawned).
CloseSend(j, who) ==
    /\ closeOnce[j] = who
    /\ Len(doneChan) < JobDoneCap
    /\ doneChan' = Append(doneChan, j)
    /\ closeOnce' = [closeOnce EXCEPT ![j] = "done"]
    /\ fpc' = [fpc EXCEPT ![j] = "waiting"]

\* Run's deferred cleanup calls Close: it executes the body, or waits for the
\* caller that does.
RunClose(j) ==
    /\ rpc[j] = "close"
    /\ Close(j, "run")
    /\ rpc' = [rpc EXCEPT ![j] = "closing"]
    /\ UNCHANGED <<busVars, metaData, auxVars>>
    /\ UNCHANGED procVars
    /\ UNCHANGED <<workVars, reqVars, handlerVars, status, closePending, wgRun,
                   idSet, killVars, countVars, poolVars, pending, activeJobs,
                   doneChan, workerVars>>

\* Run's Close body sends the job on DoneChan.
RunCloseSend(j) ==
    /\ rpc[j] = "closing"
    /\ CloseSend(j, "run")
    /\ UNCHANGED <<busVars, metaData, mdpc, wg, panicked, spc>>
    /\ UNCHANGED procVars
    /\ UNCHANGED <<workVars, reqVars, handlerVars, status, rpc, ctxDone,
                   closePending, closeBodies, wgRun, child, idSet, killVars,
                   countVars, poolVars, pending, activeJobs, workerVars>>

\* Close has returned to Run's deferred cleanup: wgRun.Done().
RunDone(j) ==
    /\ rpc[j] = "closing"
    /\ closeOnce[j] = "done"
    /\ wgRun' = [wgRun EXCEPT ![j] = @ - 1]
    /\ rpc' = [rpc EXCEPT ![j] = "finished"]
    /\ UNCHANGED <<busVars, metaData, auxVars>>
    /\ UNCHANGED procVars
    /\ UNCHANGED <<workVars, reqVars, handlerVars, status, ctxDone, closeVars,
                   child, idSet, killVars, countVars, poolVars, pending,
                   activeJobs, doneChan, workerVars>>

\* The child ends by itself, or is killed once the context of a subprocess is
\* cancelled.
ChildExit(j) ==
    /\ child[j] = "alive"
    /\ \E c \in {"exit0", "exitErr"} : child' = [child EXCEPT ![j] = c]
    /\ UNCHANGED <<busVars, metaData, auxVars>>
    /\ UNCHANGED procVars
    /\ UNCHANGED <<workVars, reqVars, handlerVars, status, rpc, ctxDone,
                   closeVars, wgRun, idSet, killVars, countVars, poolVars,
                   pending, activeJobs, doneChan, workerVars>>

\* -------------------------------------------- WriteMetaData, the finisher
\* The goroutine started by "go j.WriteMetaData()" executes j.wg.Add(1), its
\* first statement after a log line.
WriteMetaDataAdd(j) ==
    /\ metaData[j] > 0
    /\ mdpc[j] = "none"
    /\ wg' = [wg EXCEPT ![j] = @ + 1]
    /\ mdpc' = [mdpc EXCEPT ![j] = "writing"]
    /\ UNCHANGED <<workVars, reqVars, handlerVars, status, rpc, ctxDone,
                   closeVars, wgRun, child, idSet, killVars, countVars,
                   poolVars, pending, activeJobs, doneChan, workerVars,
                   busVars, metaData, procVars, fpc, panicked,
                   spc>>

\* WriteMetaData writes the metadata (or fails to) and returns: the deferred
\* j.wg.Done().
WriteMetaDataDone(j) ==
    /\ mdpc[j] = "writing"
    /\ wg' = [wg EXCEPT ![j] = @ - 1]
    /\ mdpc' = [mdpc EXCEPT ![j] = "done"]
    /\ UNCHANGED <<workVars, reqVars, handlerVars, status, rpc, ctxDone,
                   closeVars, wgRun, child, idSet, killVars, countVars,
                   poolVars, pending, activeJobs, doneChan, workerVars,
                   busVars, metaData, procVars, fpc, panicked,
                   spc>>

\* The finisher spawned by Close: j.wg.Wait() returns when the counter is
\* zero, then the log file is closed and the logs are uploaded.
CloseFinisher(j) ==
    /\ fpc[j] = "waiting"
    /\ wg[j] = 0
    /\ fpc' = [fpc EXCEPT ![j] = "uploaded"]
    /\ UNCHANGED <<workVars, reqVars, handlerVars, status, rpc, ctxDone,
                   closeVars, wgRun, child, idSet, killVars, countVars,
                   poolVars, pending, activeJobs, doneChan, workerVars,
                   busVars, metaData, procVars, mdpc, wg, panicked,
                   spc>>

\* ------------------------------------------------------------------- Kill
\* A Kill that refuses finished jobs but not dismissed ones.
KillRefusesFinished(s) == s \in {SUCCESSFUL, FAILED}

\* The switch on CurrentStatus() that opens Kill: a finished job is refused.
KillRefuses(s) == s \in Terminal

\* The dismiss handler takes the job out of PendingJobs before it calls Kill.
DismissRemove(j) ==
    /\ pending' = RemoveFrom(pending, j)
    /\ unqueued' = IF InPending(j) THEN unqueued \cup {j} ELSE unqueued

\* A dismiss request finds the job in ActiveJobs and calls Kill, which refuses
\* a job with a terminal status.
KillCall(j) ==
    /\ kpc[j] = "idle"
    /\ j \in activeJobs
    /\ dismissals > 0
    /\ dismissals' = dismissals - 1
    /\ DismissRemove(j)
    /\ kpc' = [kpc EXCEPT ![j] = IF KillRefuses(status[j]) THEN "idle" ELSE "nsu"]
    /\ UNCHANGED <<busVars, metaData, auxVars>>
    /\ UNCHANGED procVars
    /\ UNCHANGED <<menu, requests, reqVars, handlerVars, status, rpc, ctxDone,
                   closeVars, wgRun, child, idSet, killOk, countVars, poolVars,
                   activeJobs, doneChan, workerVars>>

\* Kill's NewStatusUpdate(DISMISSED): the terminal check.
KillCheck(j) ==
    /\ kpc[j] = "nsu"
    /\ kpc' = [kpc EXCEPT ![j] = IF NSUSkips(status[j]) THEN "cancel" ELSE "write"]
    /\ UNCHANGED <<busVars, metaData, auxVars>>
    /\ UNCHANGED procVars
    /\ UNCHANGED <<workVars, reqVars, handlerVars, status, rpc, ctxDone,
                   closeVars, wgRun, child, idSet, killOk, unqueued,
                   countVars, poolVars, pending, activeJobs, doneChan,
                   workerVars>>

\* Kill's NewStatusUpdate(DISMISSED): the write.
KillWrite(j) ==
    /\ kpc[j] = "write"
    /\ NSUWrite(j, DISMISSED)
    /\ kpc' = [kpc EXCEPT ![j] = "cancel"]
    /\ UNCHANGED <<busVars, metaData, auxVars>>
    /\ UNCHANGED procVars
    /\ UNCHANGED <<workVars, reqVars, handlerVars, rpc, ctxDone, closeVars,
                   wgRun, child, idSet, killOk, unqueued, countVars, poolVars,
                   pending, activeJobs, doneChan, workerVars>>

\* A Kill that also calls wgRun.Done(), as a RunFinished with a body would.
KillReturnCallsDone(j) ==
    /\ kpc[j] = "cancel"
    /\ ctxDone' = [ctxDone EXCEPT ![j] = TRUE]
    /\ closePending' = [closePending EXCEPT ![j] = @ + 1]
    /\ killOk' = [killOk EXCEPT ![j] = TRUE]
    /\ kpc' = [kpc EXCEPT ![j] = "idle"]
    /\ wgRun' = [wgRun EXCEPT ![j] = @ - 1]
    /\ UNCHANGED <<busVars, metaData, auxVars>>
    /\ UNCHANGED procVars
    /\ UNCHANGED <<workVars, reqVars, handlerVars, status, rpc, closeOnce,
                   closeBodies, child, idSet, unqueued, countVars,
                   poolVars, pending, activeJobs, doneChan, workerVars>>

\* Kill cancels the context, spawns "go j.Close()" and returns nil.
KillReturn(j) ==
    /\ kpc[j] = "cancel"
    /\ ctxDone' = [ctxDone EXCEPT ![j] = TRUE]
    /\ closePending' = [closePending EXCEPT ![j] = @ + 1]
    /\ killOk' = [killOk EXCEPT ![j] = TRUE]
    /\ kpc' = [kpc EXCEPT ![j] = "idle"]
    /\ UNCHANGED <<busVars, metaData, auxVars>>
    /\ UNCHANGED procVars
    /\ UNCHANGED <<workVars, reqVars, handlerVars, status, rpc, closeOnce,
                   closeBodies, wgRun, child, idSet, unqueued, countVars,
                   poolVars, pending, activeJobs, doneChan, workerVars>>

\* A Close goroutine spawned by Kill runs: it executes the body, or finds the
\* latch taken and has nothing to do.
KillClose(j) ==
    /\ closePending[j] > 0
    /\ closePending' = [closePending EXCEPT ![j] = @ - 1]
    /\ Close(j, "kill")
    /\ UNCHANGED <<busVars, metaData, auxVars>>
    /\ UNCHANGED procVars
    /\ UNCHANGED <<workVars, reqVars, handlerVars, status, rpc, wgRun, idSet,
                   killVars, countVars, poolVars, pending, activeJobs,
                   doneChan, workerVars>>

\* The Close body run by Kill's goroutine sends the job on DoneChan.
KillCloseSend(j) ==
    /\ CloseSend(j, "kill")
    /\ UNCHANGED <<busVars, metaData, mdpc, wg, panicked, spc>>
    /\ UNCHANGED procVars
    /\ UNCHANGED <<workVars, reqVars, handlerVars, status, rpc, ctxDone,
                   closePending, closeBodies, wgRun, child, idSet, killVars,
                   countVars, poolVars, pending, activeJobs, workerVars>>

\* --------------------------------------------------- JobCompletionRoutine
\* The completion routine takes a job from JobDone and removes it from
\* ActiveJobs.
JobCompletionRoutine ==
    /\ doneChan # <<>>
    /\ activeJobs' = activeJobs \ {Head(doneChan)}
    /\ doneChan' = Tail(doneChan)
    /\ UNCHANGED <<busVars, metaData, auxVars>>
    /\ UNCHANGED procVars
    /\ UNCHANGED <<workVars, reqVars, handlerVars, status, rpc, ctxDone,
                   closeVars, wgRun, child, idSet, killVars, countVars,
                   poolVars, pending, workerVars>>

\* ---------------------------------------------------- StatusUpdateRoutine
\* A job that reports through the channel sends a status message; the send
\* blocks while the channel is full.
SendStatus ==
    /\ Len(sent) < MaxSends
    /\ Len(statusChan) < StatusChanCap
    /\ \E m \in StatusMessages :
          /\ statusChan' = Append(statusChan, m)
          /\ sent' = Append(sent, m)
    /\ UNCHANGED <<sm, applied>>
    /\ UNCHANGED procVars
    /\ UNCHANGED <<workVars, reqVars, handlerVars, status, rpc, ctxDone,
                   closeVars, wgRun, child, idSet, killVars, countVars,
                   poolVars, pending, activeJobs, doneChan, workerVars,
                   metaData, auxVars>>

\* A consumer that takes the newest message of the channel.
StatusTakeNewest ==
    /\ sm = NoMsg
    /\ statusChan # <<>>
    /\ sm' = statusChan[Len(statusChan)]
    /\ statusChan' = SubSeq(statusChan, 1, Len(statusChan) - 1)
    /\ UNCHANGED <<sent, applied>>
    /\ UNCHANGED procVars
    /\ UNCHANGED <<workVars, reqVars, handlerVars, status, rpc, ctxDone,
                   closeVars, wgRun, child, idSet, killVars, countVars,
                   poolVars, pending, activeJobs, doneChan, workerVars,
                   metaData, auxVars>>

\* StatusUpdateRoutine receives the next message, having applied the one
\* before.
StatusTake ==
    /\ sm = NoMsg
    /\ statusChan # <<>>
    /\ sm' = Head(statusChan)
    /\ statusChan' = Tail(statusChan)
    /\ UNCHANGED <<sent, applied>>
    /\ UNCHANGED procVars
    /\ UNCHANGED <<workVars, reqVars, handlerVars, status, rpc, ctxDone,
                   closeVars, wgRun, child, idSet, killVars, countVars,
                   poolVars, pending, activeJobs, doneChan, workerVars,
                   metaData, auxVars>>

\* ProcessStatusMessageUpdate applies the message to its job.
StatusApply ==
    /\ sm # NoMsg
    /\ IF NSUSkips(status[sm.job])
         THEN UNCHANGED status
         ELSE NSUWrite(sm.job, sm.status)
    /\ applied' = Append(applied, sm)
    /\ sm' = NoMsg
    /\ UNCHANGED <<statusChan, sent>>
    /\ UNCHANGED procVars
    /\ UNCHANGED <<workVars, reqVars, handlerVars, rpc, ctxDone,
                   closeVars, wgRun, child, idSet, killVars, countVars,
                   poolVars, pending, activeJobs, doneChan, workerVars,
                   metaData, auxVars>>

\* ------------------------------------------------------------ QueueWorker
\* A processLoop that does not listen to the pool's release channel.
ProcessLoopIgnoresRelease ==
    /\ qpc = "select"
    /\ workSignal
    /\ workSignal' = FALSE
    /\ qpc' = "peek"
    /\ UNCHANGED <<busVars, metaData, auxVars>>
    /\ UNCHANGED procVars
    /\ UNCHANGED <<workVars, reqVars, handlerVars, status, rpc, ctxDone,
                   closeVars, wgRun, child, idSet, killVars, countVars,
                   poolVars, pending, activeJobs, doneChan, qjob,
                   shutdown>>

\* processLoop wakes on one of its signals and calls tryStartJobs.
ProcessLoop ==
    /\ qpc = "select"
    /\ \/ /\ workSignal
          /\ workSignal' = FALSE
          /\ UNCHANGED releaseSignal
       \/ /\ releaseSignal
          /\ releaseSignal' = FALSE
          /\ UNCHANGED workSignal
    /\ qpc' = "peek"
    /\ UNCHANGED <<busVars, metaData, auxVars>>
    /\ UNCHANGED procVars
    /\ UNCHANGED <<workVars, reqVars, handlerVars, status, rpc, ctxDone,
                   closeVars, wgRun, child, idSet, killVars, countVars, used,
                   queued, pending, activeJobs, doneChan, qjob,
                   shutdown>>

\* processLoop finds the shutdown channel closed and returns.  The select
\* takes any of its ready cases: a closed shutdown channel does not keep
\* ProcessLoop from waking on a signal that is pending too.
ProcessLoopShutdown ==
    /\ qpc = "select"
    /\ shutdown
    /\ qpc' = "stopped"
    /\ UNCHANGED <<busVars, metaData, auxVars>>
    /\ UNCHANGED procVars
    /\ UNCHANGED <<workVars, reqVars, handlerVars, status, rpc, ctxDone,
                   closeVars, wgRun, child, idSet, killVars, countVars,
                   poolVars, pending, activeJobs, doneChan, workSignal, qjob,
                   shutdown>>

\* Stop closes the shutdown channel.  The server is stopped once, after the
\* clients have made their requests and the handlers have dispatched them.
Stop ==
    /\ ~shutdown
    /\ requests = 0
    /\ \A j \in Jobs : hpc[j] \notin {"creating", "created"}
    /\ shutdown' = TRUE
    /\ spc' = "waiting"
    /\ UNCHANGED <<busVars, metaData, mdpc, wg, fpc, panicked>>
    /\ UNCHANGED procVars
    /\ UNCHANGED <<workVars, reqVars, handlerVars, status, rpc, ctxDone,
                   closeVars, wgRun, child, idSet, killVars, countVars,
                   poolVars, pending, activeJobs, doneChan, workSignal, qpc,
                   qjob>>

\* Stop's qw.wg.Wait() returns: processLoop has returned and its deferred
\* wg.Done() has run.
StopReturn ==
    /\ spc = "waiting"
    /\ qpc = "stopped"
    /\ spc' = "returned"
    /\ UNCHANGED <<busVars, metaData, mdpc, wg, fpc, panicked>>
    /\ UNCHANGED procVars
    /\ UNCHANGED <<workVars, reqVars, handlerVars, status, rpc, ctxDone,
                   closeVars, wgRun, child, idSet, killVars, countVars,
                   poolVars, pending, activeJobs, doneChan, workerVars>>

\* A tryStartJobs that passes over jobs that do not fit and reserves for the
\* first pending job that does.
TryStartPeekBackfills ==
    /\ qpc = "peek"
    /\ LET fitting == {i \in 1..Len(pending) : Fits(used, res[pending[i]])}
       IN  IF fitting = {}
             THEN /\ qpc' = "select"
                  /\ UNCHANGED <<qjob, used, reserves>>
             ELSE LET i == CHOOSE i \in fitting : \A k \in fitting : i <= k
                  IN  /\ TryReserve(res[pending[i]])
                      /\ reserves' = [reserves EXCEPT ![pending[i]] = @ + 1]
                      /\ qjob' = pending[i]
                      /\ qpc' = "remove"
    /\ UNCHANGED <<busVars, metaData, auxVars>>
    /\ UNCHANGED procVars
    /\ UNCHANGED <<workVars, reqVars, handlerVars, status, rpc, ctxDone,
                   closeVars, wgRun, child, idSet, killVars, releases, runs, queued,
                   releaseSignal, pending, activeJobs, doneChan, workSignal, shutdown>>

\* tryStartJobs peeks the head and tries to reserve its resources; it returns
\* on an empty queue and when the head does not fit.
TryStartPeek ==
    /\ qpc = "peek"
    /\ IF pending = <<>>
         THEN /\ qpc' = "select"
              /\ UNCHANGED <<qjob, used, reserves>>
         ELSE \/ /\ TryReserve(res[Head(pending)])
                 /\ reserves' = [reserves EXCEPT ![Head(pending)] = @ + 1]
                 /\ qjob' = Head(pending)
                 /\ qpc' = "remove"
              \/ /\ TryReserveFails(res[Head(pending)])
                 /\ qpc' = "select"
                 /\ UNCHANGED <<qjob, used, reserves>>
    /\ UNCHANGED <<busVars, metaData, auxVars>>
    /\ UNCHANGED procVars
    /\ UNCHANGED <<workVars, reqVars, handlerVars, status, rpc, ctxDone,
                   closeVars, wgRun, child, idSet, killVars, releases, runs, queued,
                   releaseSignal, pending, activeJobs, doneChan, workSignal, shutdown>>

\* A tryStartJobs that starts the job it peeked whether or not Remove found it.
TryStartIgnoresRemoval ==
    /\ qpc = "remove"
    /\ pending' = RemoveFrom(pending, qjob)
    /\ queued' = Minus(queued, res[qjob])
    /\ rpc' = [rpc EXCEPT ![qjob] = "start"]
    /\ runs' = [runs EXCEPT ![qjob] = @ + 1]
    /\ qpc' = "peek"
    /\ qjob' = 0
    /\ UNCHANGED <<busVars, metaData, auxVars>>
    /\ UNCHANGED procVars
    /\ UNCHANGED <<workVars, reqVars, handlerVars, status, ctxDone, closeVars,
                   wgRun, child, idSet, killVars, reserves, releases, used,
                   releaseSignal, activeJobs, doneChan, workSignal, shutdown>>

\* A tryStartJobs that puts the job it starts back at the tail of PendingJobs.
TryStartRequeues ==
    /\ qpc = "remove"
    /\ IF InPending(qjob)
         THEN /\ pending' = Append(RemoveFrom(pending, qjob), qjob)
              /\ queued' = Minus(queued, res[qjob])
              /\ rpc' = [rpc EXCEPT ![qjob] = "start"]
              /\ runs' = [runs EXCEPT ![qjob] = @ + 1]
              /\ UNCHANGED <<used, releaseSignal, releases>>
         ELSE /\ Release(res[qjob])
              /\ releases' = [releases EXCEPT ![qjob] = @ + 1]
              /\ UNCHANGED <<pending, queued, rpc, runs>>
    /\ qpc' = "peek"
    /\ qjob' = 0
    /\ UNCHANGED <<busVars, metaData, auxVars>>
    /\ UNCHANGED procVars
    /\ UNCHANGED <<workVars, reqVars, handlerVars, status, ctxDone, closeVars,
                   wgRun, child, idSet, killVars, reserves, activeJobs,
                   doneChan, workSignal, shutdown>>

\* A tryStartJobs that keeps the reservation of a job that is gone.
TryStartLeaksReservation ==
    /\ qpc = "remove"
    /\ IF InPending(qjob)
         THEN /\ pending' = RemoveFrom(pending, qjob)
              /\ queued' = Minus(queued, res[qjob])
              /\ rpc' = [rpc EXCEPT ![qjob] = "start"]
              /\ runs' = [runs EXCEPT ![qjob] = @ + 1]
         ELSE UNCHANGED <<pending, queued, rpc, runs>>
    /\ qpc' = "peek"
    /\ qjob' = 0
    /\ UNCHANGED <<busVars, metaData, auxVars>>
    /\ UNCHANGED procVars
    /\ UNCHANGED <<workVars, reqVars, handlerVars, status, ctxDone, closeVars,
                   wgRun, child, idSet, killVars, reserves, releases, used,
                   releaseSignal, activeJobs, doneChan, workSignal, shutdown>>

\* A tryStartJobs that starts the job it peeked and leaves it in PendingJobs.
TryStartKeepsJobQueued ==
    /\ qpc = "remove"
    /\ IF InPending(qjob)
         THEN /\ queued' = Minus(queued, res[qjob])
              /\ rpc' = [rpc EXCEPT ![qjob] = "start"]
              /\ runs' = [runs EXCEPT ![qjob] = @ + 1]
              /\ UNCHANGED <<used, releaseSignal, releases>>
         ELSE /\ Release(res[qjob])
              /\ releases' = [releases EXCEPT ![qjob] = @ + 1]
              /\ UNCHANGED <<queued, rpc, runs>>
    /\ qpc' = "peek"
    /\ qjob' = 0
    /\ UNCHANGED <<busVars, metaData, auxVars>>
    /\ UNCHANGED procVars
    /\ UNCHANGED <<workVars, reqVars, handlerVars, status, ctxDone, closeVars,
                   wgRun, child, idSet, killVars, reserves, pending,
                   activeJobs, doneChan, workSignal, shutdown>>

\* A scheduler that starts one job per wake-up instead of draining the queue.
TryStartReturnsAfterOne ==
    /\ qpc = "remove"
    /\ IF InPending(qjob)
         THEN /\ pending' = RemoveFrom(pending, qjob)
              /\ queued' = Minus(queued, res[qjob])
              /\ rpc' = [rpc EXCEPT ![qjob] = "start"]
              /\ runs' = [runs EXCEPT ![qjob] = @ + 1]
              /\ UNCHANGED <<used, releaseSignal, releases>>
         ELSE /\ Release(res[qjob])
              /\ releases' = [releases EXCEPT ![qjob] = @ + 1]
              /\ UNCHANGED <<pending, queued, rpc, runs>>
    /\ qpc' = "select"
    /\ qjob' = 0
    /\ UNCHANGED <<busVars, metaData, auxVars>>
    /\ UNCHANGED procVars
    /\ UNCHANGED <<workVars, reqVars, handlerVars, status, ctxDone, closeVars,
                   wgRun, child, idSet, killVars, reserves, activeJobs,
                   doneChan, workSignal, shutdown>>

\* tryStartJobs removes the job it reserved for: it is started (RemoveQueued,
\* go Run), or it is gone and the reservation is released; the loop goes on.
TryStartRemove ==
    /\ qpc = "remove"
    /\ IF InPending(qjob)
         THEN /\ pending' = RemoveFrom(pending, qjob)
              /\ queued' = Minus(queued, res[qjob])
              /\ rpc' = [rpc EXCEPT ![qjob] = "start"]
              /\ runs' = [runs EXCEPT ![qjob] = @ + 1]
              /\ UNCHANGED <<used, releaseSignal, releases>>
         ELSE /\ Release(res[qjob])
              /\ releases' = [releases EXCEPT ![qjob] = @ + 1]
              /\ UNCHANGED <<pending, queued, rpc, runs>>
    /\ qpc' = "peek"
    /\ qjob' = 0
    /\ UNCHANGED <<busVars, metaData, auxVars>>
    /\ UNCHANGED procVars
    /\ UNCHANGED <<workVars, reqVars, handlerVars, status, ctxDone, closeVars,
                   wgRun, child, idSet, killVars, reserves, activeJobs,
                   doneChan, workSignal, shutdown>>

\* ---------------------------------------------------------- specification
JobNext(j) ==
    \/ CreateReserve(j)
    \/ CreateFails(j)
    \/ CreateSucceeds(j)
    \/ Dispatch(j)
    \/ WaitForRunCompletion(j)
    \/ RunStart(j)
    \/ RunWriteRunning(j)
    \/ RunCancelCheck(j)
    \/ RunWait(j)
    \/ RunWriteFailed(j)
    \/ RunWriteSuccessful(j)
    \/ RunRelease(j)
    \/ RunClose(j)
    \/ RunCloseSend(j)
    \/ RunDone(j)
    \/ ChildExit(j)
    \/ KillCall(j)
    \/ KillCheck(j)
    \/ KillWrite(j)
    \/ KillReturn(j)
    \/ KillClose(j)
    \/ KillCloseSend(j)

Next ==
    \/ \E j \in Jobs : JobNext(j)
    \/ JobCompletionRoutine
    \/ ProcessLoop
    \/ TryStartPeek
    \/ TryStartRemove

\* One small job of any kind, dismissed up to MaxDismissals times.
Init ==
    /\ Start
    /\ NoPlugins
    /\ NoExecutionInputs
    /\ menu = [j \in Jobs |-> {c \in Requests : c.res = Small}]
    /\ requests = 1
    /\ dismissals = MaxDismissals

Spec == Init /\ [][Next]_vars

\* The same job with the goroutines that Run and Close leave behind.
AuxNext ==
    \/ Next
    \/ \E j \in Jobs : WriteMetaDataAdd(j)
    \/ \E j \in Jobs : WriteMetaDataDone(j)
    \/ \E j \in Jobs : CloseFinisher(j)

AuxSpec == Init /\ [][AuxNext]_vars

\* The same job with a Run that may panic.
PanicNext ==
    \/ Next
    \/ \E j \in Jobs : RunPanics(j)

PanicSpec == Init /\ [][PanicNext]_vars

\* Two subprocess jobs that compete for the pool, one dismiss request.
PoolInit ==
    /\ Start
    /\ NoPlugins
    /\ NoExecutionInputs
    /\ menu = [j \in Jobs |->
                 {c \in Requests : c.kind = "subprocess" /\ (c.sync <=> c.res = Small)}]
    /\ requests = 2
    /\ dismissals = 1

PoolSpec == PoolInit /\ [][Next]_vars

\* A sync small job, then an async job that needs the whole memory, then an
\* async small job: the third fits beside the first, the second does not.
FifoMenu ==
    [j \in Jobs |->
        {c \in Requests : /\ c.kind = "subprocess"
                          /\ c.sync = (j = 1)
                          /\ c.res = (IF j = 2 THEN Large ELSE Small)}]

FifoInit ==
    /\ Start
    /\ NoPlugins
    /\ NoExecutionInputs
    /\ menu = FifoMenu
    /\ requests = 3
    /\ dismissals = 0

\* The steps of a job nobody dismisses.
UndismissedJobNext(j) ==
    \/ CreateReserve(j)
    \/ CreateFails(j)
    \/ CreateSucceeds(j)
    \/ Dispatch(j)
    \/ WaitForRunCompletion(j)
    \/ RunStart(j)
    \/ RunWriteRunning(j)
    \/ RunCancelCheck(j)
    \/ RunWait(j)
    \/ RunWriteFailed(j)
    \/ RunWriteSuccessful(j)
    \/ RunRelease(j)
    \/ RunClose(j)
    \/ RunCloseSend(j)
    \/ RunDone(j)
    \/ ChildExit(j)

\* The server without dismiss requests.
FifoNext ==
    \/ \E j \in Jobs : UndismissedJobNext(j)
    \/ JobCompletionRoutine
    \/ ProcessLoop
    \/ TryStartPeek
    \/ TryStartRemove

FifoSpec == FifoInit /\ [][FifoNext]_vars

\* Two subprocess jobs, small or large, async unless the client of job 1
\* asks for a sync execution: two small ones fit in the pool together.
NotifyMenu ==
    [j \in Jobs |->
        {c \in Requests : /\ c.kind = "subprocess"
                          /\ c.sync => j = 1}]

NotifyInit ==
    /\ Start
    /\ NoPlugins
    /\ NoExecutionInputs
    /\ menu = NotifyMenu
    /\ requests = 2
    /\ dismissals = 0

NotifySpec == NotifyInit /\ [][FifoNext]_vars

\* A sync job that takes the whole memory, and an async job that has to wait
\* for it; one dismiss request.
LiveMenu ==
    [j \in Jobs |->
        {c \in Requests : /\ c.kind = "subprocess"
                          /\ c.sync = (j = 1)
                          /\ c.res = (IF j = 1 THEN Large ELSE Small)}]

LiveInit ==
    /\ Start
    /\ NoPlugins
    /\ NoExecutionInputs
    /\ menu = LiveMenu
    /\ requests = 2
    /\ dismissals = 1

\* The steps of job j that the server takes by itself, once the client has
\* made its request: every goroutine that can run does run.
JobProgress(j) ==
    \/ CreateFails(j)
    \/ CreateSucceeds(j)
    \/ Dispatch(j)
    \/ WaitForRunCompletion(j)
    \/ RunStart(j)
    \/ RunWriteRunning(j)
    \/ RunCancelCheck(j)
    \/ RunWait(j)
    \/ RunWriteFailed(j)
    \/ RunWriteSuccessful(j)
    \/ RunRelease(j)
    \/ RunClose(j)
    \/ RunCloseSend(j)
    \/ RunDone(j)
    \/ ChildExit(j)
    \/ KillCheck(j)
    \/ KillWrite(j)
    \/ KillReturn(j)
    \/ KillClose(j)
    \/ KillCloseSend(j)

\* A step of the server itself: of a goroutine or child that is ready to run.
ServerProgress ==
    \/ \E j \in Jobs : JobProgress(j)
    \/ JobCompletionRoutine
    \/ ProcessLoop
    \/ TryStartPeek
    \/ TryStartRemove

\* The server does not stop while one of its goroutines or children can take
\* a step; the clients are free to make no further request.
Fairness == WF_vars(ServerProgress)

LiveSpec == LiveInit /\ [][Next]_vars /\ Fairness

\* The server with a shutdown and without dismiss requests.
ShutdownNext ==
    \/ \E j \in Jobs : UndismissedJobNext(j)
    \/ JobCompletionRoutine
    \/ ProcessLoop
    \/ ProcessLoopShutdown
    \/ TryStartPeek
    \/ TryStartRemove
    \/ Stop
    \/ StopReturn

\* A sync job that takes the whole memory and an async job queued behind it;
\* the server is stopped at some moment after both requests.
ShutdownInit ==
    /\ Start
    /\ NoPlugins
    /\ NoExecutionInputs
    /\ menu = LiveMenu
    /\ requests = 2
    /\ dismissals = 0

ShutdownSpec == ShutdownInit /\ [][ShutdownNext]_vars

\* The status channel with its senders and its consumer.
BusNext ==
    \/ SendStatus
    \/ StatusTake
    \/ StatusApply

\* Jobs that report through the status channel, MaxSends messages in all.
BusInit ==
    /\ Start
    /\ NoPlugins
    /\ NoExecutionInputs
    /\ menu = [j \in Jobs |-> {}]
    /\ requests = 0
    /\ dismissals = 0

BusSpec == BusInit /\ [][BusNext]_vars

\* LoadProcesses going through the plugins directory.
LoadStep ==
    \/ LoadNext
    \/ LoadReturn

\* The server starts: any two process specs in the plugins directory, their
\* env vars all set or all missing.
LoadInit ==
    /\ Start
    /\ NoExecutionInputs
    /\ menu = [j \in Jobs |-> {}]
    /\ requests = 0
    /\ dismissals = 0
    /\ plugins \in [Files -> ProcessSpecs]
    /\ env \in {{}, Names}
    /\ nextFile = 1
    /\ processes = <<>>
    /\ rejected = {}
    /\ loaded = FALSE

LoadSpec == LoadInit /\ [][LoadStep]_vars

\* A request for a process with up to two declared inputs, supplying any
\* values for any of the keys.
InputInit ==
    /\ Start
    /\ NoPlugins
    /\ menu = [j \in Jobs |-> {}]
    /\ requests = 0
    /\ dismissals = 0
    /\ declared \in {<<>>} \cup {<<d>> : d \in InputDecls}
                      \cup {<<d, e>> : d \in InputDecls, e \in InputDecls}
    /\ inp \in UNION {[D -> InputValues] : D \in SUBSET InputKeys}
    /\ verr = "none"

InputNext == VerifyInputsCall

InputSpec == InputInit /\ [][InputNext]_vars

\* The one-job workload of Spec, with a server that keeps running.
FairSpec == Init /\ [][Next]_vars /\ Fairness

TypeOK ==
    /\ status \in [Jobs -> Statuses]
    /\ used.cpus \in 0..TotalCPUs
    /\ used.mem \in 0..TotalMemory
    /\ Len(doneChan) <= JobDoneCap

\* ------------------------------------------------------------------ claims
\* Job j holds a reservation: Create reserved for it and has not returned an
\* error, the QueueWorker reserved for it and has not yet started or released
\* it, or its Run has not reached the deferred Release.
Holding(j) ==
    \/ isSync[j] /\ hpc[j] \in {"creating", "created"}
    \/ qpc = "remove" /\ qjob = j
    \/ rpc[j] \in {"start", "wrRunning", "cancelChk", "wait", "wrFailed",
                   "wrSuccessful", "release"}

\* The resources of the jobs that hold a reservation, summed.
HeldBy(S) ==
    LET RECURSIVE Sum(_)
        Sum(T) == IF T = {} THEN NoRes
                  ELSE LET j == CHOOSE x \in T : TRUE
                       IN  Plus(IF Holding(j) THEN res[j] ELSE NoRes,
                                Sum(T \ {j}))
    IN  Sum(S)

Held == HeldBy(Jobs)

\* C1: the pool's used cpus and memory stay within [0, total], and the
\* reservations held at any moment sum to at most the limits.
C1_UsedWithinLimits ==
    /\ used.cpus \in 0..TotalCPUs
    /\ used.mem \in 0..TotalMemory
    /\ Held.cpus <= TotalCPUs
    /\ Held.mem <= TotalMemory

\* Two jobs hold reservations that fill the cpus of the pool.
C1_Witness ==
    /\ Cardinality({j \in Jobs : Holding(j)}) = 2
    /\ used.cpus = TotalCPUs
    /\ Held = used

\* C2: a reservation is released at most once, and exactly once by the time
\* the path that took it has ended: Run past its deferred Release (whatever
\* the way it left), Create returned with an error, or the QueueWorker gave
\* up a job that was dismissed while it reserved.
C2_OneReleasePerReservation ==
    \A j \in Jobs :
        /\ releases[j] <= reserves[j]
        /\ reserves[j] <= 1
        /\ rpc[j] \in {"close", "closing", "finished"}
             => reserves[j] = 1 /\ releases[j] = 1
        /\ hpc[j] = "failed" => releases[j] = reserves[j]
        /\ ~Holding(j) => releases[j] = reserves[j]

\* A dismissed job's Run has ended and its one reservation was released once.
C2_Witness ==
    \E j \in Jobs :
        /\ rpc[j] = "finished"
        /\ killOk[j]
        /\ ctxDone[j]
        /\ reserves[j] = 1
        /\ releases[j] = 1

\* C3: a job's status, once terminal, never changes again, under any
\* interleaving of the NewStatusUpdate calls of Run and Kill.
C3_TerminalStatusKept ==
    [][\A j \in Jobs : status[j] \in Terminal => status'[j] = status[j]]_vars

\* The transitions of the job state machine.
Transitions ==
    {<<ACCEPTED, RUNNING>>, <<RUNNING, SUCCESSFUL>>, <<RUNNING, FAILED>>,
     <<RUNNING, DISMISSED>>, <<ACCEPTED, DISMISSED>>}

\* C4: the status changes only along accepted -> running, running ->
\* successful, failed or dismissed, and accepted -> dismissed.
C4_OnlyListedTransitions ==
    [][\A j \in Jobs :
          status'[j] # status[j] /\ status[j] # NOSTATUS
              => <<status[j], status'[j]>> \in Transitions]_vars

\* The transitions the code makes out of a status that is not terminal: the
\* listed ones, and accepted -> failed when the child cannot be started.
TransitionsFromLive == Transitions \cup {<<ACCEPTED, FAILED>>}

\* C4, as the code has it: out of accepted the status goes to running, failed
\* or dismissed, and out of running to successful, failed or dismissed.
C4_LiveTransitions ==
    [][\A j \in Jobs :
          status'[j] # status[j] /\ status[j] \in {ACCEPTED, RUNNING}
              => <<status[j], status'[j]>> \in TransitionsFromLive]_vars

\* A job failed at its start, never ran, and was never dismissed.
C4_Witness ==
    \E j \in Jobs :
        /\ status[j] = FAILED
        /\ child[j] = "none"
        /\ rpc[j] = "finished"
        /\ dismissals = MaxDismissals

\* C5: the body of Close is executed at most once per job, whoever calls.
C5_CloseBodyOnce == \A j \in Jobs : closeBodies[j] <= 1

\* Run's deferred Close and the Close spawned by a successful Kill have both
\* been called, and the body ran once.
C5_Witness ==
    \E j \in Jobs :
        /\ closeBodies[j] = 1
        /\ closeOnce[j] = "done"
        /\ killOk[j]
        /\ closePending[j] = 0
        /\ rpc[j] = "finished"

\* C6: once Kill has returned nil for a job, the job's status is dismissed.
C6_KillSuccessMeansDismissed ==
    \A j \in Jobs : killOk[j] => status[j] = DISMISSED

\* C7: a Kill that finds the status terminal returns its error and changes
\* nothing: status, context, Close latch and scheduled Close calls are as
\* before, Kill is over and has not returned nil.
C7_KillOnTerminalIsNoOp ==
    [][\A j \in Jobs :
          KillCall(j) /\ status[j] \in Terminal
              => /\ kpc'[j] = "idle"
                 /\ UNCHANGED <<status, ctxDone, closeVars, killOk>>]_vars

\* A Kill was refused on a successful job whose context is not cancelled.
C7_Witness ==
    \E j \in Jobs :
        /\ dismissals < MaxDismissals
        /\ \A k \in Jobs : kpc[k] = "idle" /\ ~killOk[k] /\ closePending[k] = 0
        /\ status[j] = SUCCESSFUL
        /\ ~ctxDone[j]

\* C8: a sync Create that the pool cannot fit returns its error with no
\* effect: used, statuses, job store, wgRun, the release signal, ActiveJobs
\* and the reservation counts are unchanged.
C8_RefusedCreateHasNoEffect ==
    [][\A j \in Jobs :
          hpc[j] = "idle" /\ hpc'[j] # "idle" /\ isSync'[j]
            /\ ~Fits(used, res'[j])
              => /\ hpc'[j] = "refused"
                 /\ UNCHANGED <<used, status, jobStore, wgRun, releaseSignal,
                                activeJobs, countVars>>]_vars

\* A sync job was refused while a running job held the memory of the pool.
C8_Witness ==
    \E j, k \in Jobs :
        /\ hpc[j] = "refused"
        /\ isSync[j]
        /\ status[j] = NOSTATUS
        /\ rpc[k] = "wait"
        /\ used = res[k]
        /\ ~releaseSignal

\* C9: Create reserves exactly for sync jobs; a Create that failed after its
\* reservation has released it once, leaves used at what the other jobs hold,
\* and has not incremented wgRun.
C9_CreateReservesIffSync ==
    \A j \in Jobs :
        /\ hpc[j] \in {"creating", "created", "failed"}
             => reserves[j] = (IF isSync[j] THEN 1 ELSE 0)
        /\ hpc[j] = "creating" => releases[j] = 0 /\ wgRun[j] = 0
        /\ hpc[j] = "failed"
             => /\ releases[j] = reserves[j]
                /\ wgRun[j] = 0
                /\ used = Held

\* A sync Create failed after it reserved, while another job holds resources.
C9_Witness ==
    \E j, k \in Jobs :
        /\ hpc[j] = "failed"
        /\ isSync[j]
        /\ reserves[j] = 1
        /\ releases[j] = 1
        /\ Holding(k)
        /\ used = res[k]

\* C10: when WaitForRunCompletion returns, the status the sync handler reads
\* is terminal.
C10_TerminalAfterWait ==
    \A j \in Jobs : isSync[j] /\ hpc[j] = "returned" => hres[j] \in Terminal

\* C11: when WaitForRunCompletion returns, the job's reservation has been
\* released; with no other job holding resources, used is zero at that moment.
C11_ReleasedBeforeWaitReturns ==
    [][\A j \in Jobs :
          hpc[j] = "waiting" /\ hpc'[j] = "returned"
              => /\ reserves[j] = 1
                 /\ releases[j] = 1
                 /\ ~Holding(j)
                 /\ (\A k \in Jobs : ~Holding(k)) => used = NoRes]_vars

\* A sync job ran to success, its wait has returned and the pool is empty.
C11_Witness ==
    \E j \in Jobs :
        /\ isSync[j]
        /\ hpc[j] = "returned"
        /\ hres[j] = SUCCESSFUL
        /\ releases[j] = 1
        /\ used = NoRes

\* Job j has been sent on JobDone: it is in the channel, or the completion
\* routine has taken it and removed it from ActiveJobs.
SentOnDoneChan(j) ==
    \/ \E i \in 1..Len(doneChan) : doneChan[i] = j
    \/ j \notin activeJobs

\* C12: wgRun.Done() of Run's cleanup comes after the job was sent on
\* doneChan by the Close body, on every exit path and whoever ran the body.
C12_DoneAfterSend ==
    \A j \in Jobs : rpc[j] = "finished" => SentOnDoneChan(j)

\* C13: a job's resources are given back only after its started child has
\* exited and been waited for: no started child is alive once the job's
\* reservation has been released.
C13_ReleaseAfterChildExit ==
    \A j \in Jobs : child[j] = "alive" => releases[j] = 0

\* C14: the scheduler starts async jobs in FIFO order: the job it starts is
\* the head of PendingJobs, so no job appended before it is still pending.
C14_StartsInFifoOrder ==
    [][\A j \in Jobs :
          ~isSync[j] /\ rpc[j] = "none" /\ rpc'[j] = "start"
              => pending # <<>> /\ Head(pending) = j]_vars

\* Head-of-line blocking: the scheduler has drained and sleeps, the head does
\* not fit beside the running job, and the job behind it, which would fit,
\* has not been started.
C14_Witness ==
    /\ Len(pending) = 2
    /\ ~Fits(used, res[pending[1]])
    /\ Fits(used, res[pending[2]])
    /\ rpc[pending[2]] = "none"
    /\ qpc = "select"
    /\ ~workSignal
    /\ ~releaseSignal
    /\ \E k \in Jobs : rpc[k] = "wait"

\* C15: Run is launched at most once per job.
C15_RunLaunchedOnce == \A j \in Jobs : runs[j] <= 1

\* Two async jobs were each started once by the scheduler; one of them was
\* dismissed and has finished.
C15_Witness ==
    \E j, k \in Jobs :
        /\ j # k
        /\ ~isSync[j] /\ ~isSync[k]
        /\ runs[j] = 1 /\ runs[k] = 1
        /\ killOk[j]
        /\ rpc[j] = "finished"

\* C16: when the job the scheduler reserved for is gone from PendingJobs,
\* the scheduler releases that reservation once, does not start the job,
\* leaves the queued counters alone and goes back to peek the new head; used
\* is then what it was without the reservation.
C16_GoneJobIsReleased ==
    [][qpc = "remove" /\ qpc' # qpc /\ ~InPending(qjob)
          => /\ releases' = [releases EXCEPT ![qjob] = @ + 1]
             /\ used = Plus(used', res[qjob])
             /\ used' = Held'
             /\ releaseSignal'
             /\ UNCHANGED <<rpc, runs, queued, pending, reserves>>
             /\ qpc' = "peek"]_vars

\* The scheduler gave up a dismissed job it had reserved for and is back at
\* the head of a queue that is not empty.
C16_Witness ==
    \E j \in Jobs :
        /\ ~isSync[j]
        /\ reserves[j] = 1
        /\ releases[j] = 1
        /\ runs[j] = 0
        /\ qpc = "peek"
        /\ pending # <<>>

\* C17: a job is never in PendingJobs and started at once: it leaves
\* PendingJobs before its Run is launched, is in PendingJobs at most once and
\* is not appended again.
C17_PendingOrStarted ==
    \A j \in Jobs :
        /\ ~(InPending(j) /\ runs[j] > 0)
        /\ Cardinality({i \in 1..Len(pending) : pending[i] = j}) <= 1
        /\ InPending(j) => ~isSync[j] /\ hpc[j] = "returned" /\ rpc[j] = "none"

\* The scheduler has started one queued job, which has left PendingJobs; the
\* other one is still queued.
C17_Witness ==
    \E j, k \in Jobs :
        /\ ~isSync[j]
        /\ runs[j] = 1
        /\ ~InPending(j)
        /\ InPending(k)
        /\ runs[k] = 0

\* C18: a job that is in PendingJobs holds no reservation.
C18_PendingHoldsNothing ==
    \A j \in Jobs : InPending(j) => reserves[j] = releases[j]

\* C18, as the code has it: a job in PendingJobs holds no reservation, but for
\* the head while the scheduler, having reserved for it, has not yet removed it.
C18_PendingHoldsNothingButHead ==
    \A j \in Jobs :
        InPending(j) =>
            IF qpc = "remove" /\ qjob = j
              THEN /\ j = Head(pending)
                   /\ reserves[j] = 1
                   /\ releases[j] = 0
              ELSE /\ reserves[j] = 0
                   /\ releases[j] = 0

\* The scheduler has reserved for the head, which is still in PendingJobs and
\* counted in used.
C18_Witness ==
    /\ qpc = "remove"
    /\ InPending(qjob)
    /\ reserves[qjob] = 1
    /\ used = res[qjob]

\* C19: no queued job waits forever: with the scheduler running, every job
\* within the pool's totals and every started job finishing, a job in
\* PendingJobs is eventually started or dismissed.
C19_QueuedJobsLeaveTheQueue ==
    \A j \in Jobs : InPending(j) ~> (runs[j] = 1 \/ killOk[j])

\* A job is queued behind a running job that holds the memory, and the
\* scheduler, having drained, sleeps with no wake-up pending.
C19_Witness ==
    \E j, k \in Jobs :
        /\ InPending(j)
        /\ rpc[k] = "wait"
        /\ ~Fits(used, res[j])
        /\ qpc = "select"
        /\ ~workSignal
        /\ ~releaseSignal

\* C20: a job that a dismiss request took out of PendingJobs is never
\* started: its Run is not launched, it has no child, its status is never
\* running, and it is dismissed once Kill has returned nil.
C20_DismissedInQueueNeverStarts ==
    \A j \in unqueued :
        /\ runs[j] = 0
        /\ rpc[j] = "none"
        /\ child[j] = "none"
        /\ status[j] \in {ACCEPTED, DISMISSED}
        /\ ~InPending(j)
        /\ killOk[j] => status[j] = DISMISSED

\* Job j was dismissed while queued behind the running job k, which then
\* completed normally; the scheduler has drained since and j was not started.
C20_Witness ==
    \E j \in unqueued : \E k \in Jobs :
        /\ killOk[j]
        /\ status[j] = DISMISSED
        /\ status[k] = SUCCESSFUL
        /\ rpc[k] = "finished"
        /\ ~killOk[k]
        /\ pending = <<>>
        /\ qpc = "select"
        /\ ~workSignal
        /\ ~releaseSignal

\* The jobs for which Kill returned nil after their Run was launched.
KilledRunning == {j \in Jobs : killOk[j] /\ runs[j] = 1}

\* Every job that was queued and not taken out by a dismiss request has been
\* started.
QueueDrained ==
    /\ pending = <<>>
    /\ \A k \in Jobs :
          ~isSync[k] /\ hpc[k] = "returned" /\ k \notin unqueued => runs[k] = 1

\* C21: after Kill has returned nil for a job whose Run is in progress, the
\* job's reservation is released, once; the release signals the scheduler,
\* and the jobs that are pending then are started.
C21_KilledRunReleases ==
    /\ (\E j \in KilledRunning : releases[j] = 0)
          ~> (\A j \in KilledRunning :
                 releases[j] = 1 /\ rpc[j] \in {"close", "closing", "finished"})
    /\ (KilledRunning # {} /\ pending # <<>>) ~> QueueDrained
    /\ [][\A j \in Jobs :
             killOk[j] /\ releases'[j] # releases[j]
                 => releases[j] = 0 /\ releases'[j] = 1 /\ releaseSignal']_vars

\* The running job that held the memory was dismissed and has released it,
\* and the scheduler has started the job that was queued behind it.
C21_Witness ==
    \E j, k \in Jobs :
        /\ killOk[j]
        /\ status[j] = DISMISSED
        /\ child[j] # "none"
        /\ releases[j] = 1
        /\ ~isSync[k]
        /\ rpc[k] = "start"
        /\ used = res[k]

\* C22: every job that reaches a terminal status is eventually sent on
\* doneChan and removed from ActiveJobs by the completion routine, whichever
\* backend runs it and whichever way its Close body goes.
C22_TerminalJobLeavesActiveJobs ==
    \A j \in Jobs : (status[j] \in Terminal) ~> (j \notin activeJobs)

\* C23: once the shutdown channel of the scheduler is closed, a job that is
\* still in PendingJobs is not started.
C23_NoStartAfterShutdown ==
    [][\A j \in Jobs : shutdown /\ InPending(j) => runs'[j] = runs[j]]_vars

\* The message the consumer has taken and not yet applied.
InFlight == IF sm = NoMsg THEN <<>> ELSE <<sm>>

\* C24: the single consumer applies the status messages in the order they
\* were sent: the messages applied, the one being applied and those waiting
\* in the channel are, in this order, the messages sent; a message is taken
\* only when the one before it has been applied.
C24_AppliedInSendOrder ==
    /\ sent = applied \o InFlight \o statusChan
    /\ Len(InFlight) <= 1

\* Two different statuses of one job were sent and have been applied in that
\* order, while a third message waits in the channel.
C24_Witness ==
    /\ Len(applied) = 2
    /\ applied[1].job = applied[2].job
    /\ applied[1].status = RUNNING
    /\ applied[2].status = SUCCESSFUL
    /\ status[applied[1].job] = SUCCESSFUL
    /\ Len(statusChan) = 1
    /\ sm = NoMsg

\* Run and Kill are both between the check and the write of a
\* NewStatusUpdate on job j.
TwoStatusWriters(j) ==
    /\ rpc[j] \in {"wrRunning", "wrFailed", "wrSuccessful"}
    /\ kpc[j] = "write"

\* C25: every transition of a job's status is made by the status consumer,
\* when it applies a message about that job, and no two writers are ever
\* about to write the status of one job.
C25_StatusWrittenByConsumerOnly ==
    [][\A j \in Jobs :
          /\ status'[j] # status[j] /\ status[j] # NOSTATUS
                => sm.job = j /\ sm' = NoMsg
          /\ ~TwoStatusWriters(j)']_vars

\* C26: the metadata task is started only for jobs whose status is
\* successful: a dismissed or failed job never has WriteMetaData run.
C26_MetaDataOnlyIfSuccessful ==
    \A j \in Jobs : metaData[j] > 0 => status[j] = SUCCESSFUL

\* C27: every env var of a registered process starts with the upper-cased
\* process id followed by an underscore.
C27_EnvVarsHaveIdUnderscore ==
    \A i \in 1..Len(processes) :
        \A k \in 1..Len(processes[i].envVars) :
            HasPrefix(processes[i].envVars[k],
                      Append(ToUpper(processes[i].id), "_"))

\* C29: every registered process of a local host type asks for at most the
\* cpus and the memory of the server's limits.
C29_LocalProcessesWithinLimits ==
    \A i \in 1..Len(processes) :
        processes[i].hostType \in {"docker", "subprocess"}
            => /\ processes[i].res.cpus <= TotalCPUs
               /\ processes[i].res.mem <= TotalMemory

\* C30: when loading has succeeded, no process spec failed validation: the
\* list holds every spec of the plugins directory.
C30_LoadFailsOnInvalidSpec ==
    loaded /\ plugins # <<>>
        => rejected = {} /\ Len(processes) = Cardinality(Files)

\* The occurrence count of key k in the request: the length of a sequence,
\* 1 for another value, 0 when the key is absent.
SuppliedCount(k) ==
    IF k \notin DOMAIN inp THEN 0
    ELSE IF inp[k].isSeq THEN inp[k].len
    ELSE 1

\* Some supplied key is not declared by the process.
UndeclaredKey ==
    \E k \in DOMAIN inp : \A i \in 1..Len(declared) : declared[i].id # k

\* The count of declaration d is below its minOccurs, or above its maxOccurs
\* when that is greater than 0.
OutOfRange(d) ==
    \/ SuppliedCount(d.id) < d.minOccurs
    \/ d.maxOccurs > 0 /\ SuppliedCount(d.id) > d.maxOccurs

\* C28: VerifyInputs returns an error exactly when a supplied key is not
\* declared or the count of some declared input is out of its range.
C28_ErrorIffUndeclaredOrOutOfRange ==
    verr # "none" =>
        (verr = "error" <=>
            \/ UndeclaredKey
            \/ \E i \in 1..Len(declared) : OutOfRange(declared[i]))

\* The entries of p.Inputs that no later entry of the same id follows.
LastDeclarations ==
    {i \in 1..Len(declared) :
        \A k \in (i + 1)..Len(declared) : declared[k].id # declared[i].id}

\* C28, as the code has it: VerifyInputs returns an error exactly when a
\* supplied key is not declared or the count of some input is out of the
\* range of the last declaration of its id.
C28_ErrorIffOutOfLastDeclaredRange ==
    verr # "none" =>
        (verr = "error" <=>
            \/ UndeclaredKey
            \/ \E i \in LastDeclarations : OutOfRange(declared[i]))

\* An input declared twice, absent from the request: the first declaration
\* requires an occurrence, the second does not, and VerifyInputs returned nil.
C28_Witness ==
    /\ verr = "nil"
    /\ Len(declared) = 2
    /\ declared[1].id = declared[2].id
    /\ OutOfRange(declared[1])
    /\ ~OutOfRange(declared[2])

\* The resources of the jobs in PendingJobs, summed.
RECURSIVE PendingSum(_)
PendingSum(q) == IF q = <<>> THEN NoRes ELSE Plus(res[Head(q)], PendingSum(Tail(q)))

\* C31: the queued counters of the pool are the summed resources of the jobs
\* in PendingJobs: every removal from PendingJobs takes the job's resources
\* out of them.
C31_QueuedMatchesPending == queued = PendingSum(pending)

\* C32: every container that Run started for a container job is eventually
\* removed by the job's Close, in particular when the body of Close has run
\* (the latch is spent) while Run has started the container and has not yet
\* stored its id.
C32_StartedContainerIsRemoved ==
    \A j \in Jobs :
        (/\ kind[j] = "docker"
         /\ child[j] \in {"alive", "exit0", "exitErr"}
         /\ ~idSet[j]
         /\ closeOnce[j] # "fresh")
            ~> (child[j] = "removed")

\* C33: the finisher spawned by Close uploads the logs only after the
\* metadata task, if Run has launched it, has finished.
C33_UploadAfterMetaData ==
    [][\A j \in Jobs :
          (fpc[j] = "waiting" /\ fpc'[j] = "uploaded" /\ metaData[j] > 0)
              => mdpc[j] = "done"]_vars
\* C34: once the status of a job is terminal its provider id (PID or
\* ContainerID) is not written any more.
C34_ProviderIdStableOnceTerminal ==
    [][\A j \in Jobs : status[j] \in Terminal => idSet'[j] = idSet[j]]_vars
\* C35: when Run panics the panic is recovered, the status becomes failed
\* unless it is terminal already, and the cleanup goes on in its order:
\* Release, then Close, then wgRun.Done.
C35_PanicRecovered ==
    [][\A j \in Jobs : panicked[j] =>
          /\ (status'[j] = FAILED /\ status[j] # FAILED)
                 => status[j] \notin Terminal
          /\ (rpc[j] = "close" /\ rpc'[j] = "closing") => releases[j] = 1
          /\ wgRun'[j] # wgRun[j]
                 => /\ releases[j] = 1
                    /\ closeOnce[j] = "done"
                    /\ wgRun'[j] = 0]_vars
\* C36: wgRun is raised once, by the job's successful Create, and lowered
\* once, by the cleanup of the job's one Run; it is always 0 or 1, and no
\* step of Kill or Close changes it.
C36_WgRunUpOnceDownOnce ==
    /\ [](\A j \in Jobs : wgRun[j] \in {0, 1})
    /\ [][\A j \in Jobs :
            /\ wgRun'[j] # wgRun[j] =>
                  \/ /\ wgRun'[j] = wgRun[j] + 1
                     /\ hpc[j] = "creating" /\ hpc'[j] = "created"
                  \/ /\ wgRun'[j] = wgRun[j] - 1
                     /\ rpc[j] = "closing" /\ rpc'[j] = "finished"
                     /\ runs[j] = 1
            /\ (\/ kpc'[j] # kpc[j]
                \/ closeOnce'[j] # closeOnce[j]
                \/ closePending'[j] # closePending[j])
                  => wgRun'[j] = wgRun[j]]_vars

\* A dismissed job whose Run has finished: Kill and both Close calls are over
\* and the counter is back at 0.
C36_Witness ==
    \E j \in Jobs :
        /\ killOk[j]
        /\ rpc[j] = "finished"
        /\ closeOnce[j] = "done"
        /\ closePending[j] = 0
        /\ wgRun[j] = 0
\* C37: NotifyNewJob never blocks the handler; workSignal holds at most one
\* signal; after every enqueue a signal is pending, whether the notification
\* was stored or dropped; the drain that takes the signal starts with the
\* queue as the handlers left it, and the scheduler never sleeps with no
\* wake-up pending while the head of the queue fits in the pool.
C37_NotifyCoalesces ==
    /\ [](workSignal \in BOOLEAN)
    /\ [](\A j \in Jobs : hpc[j] = "created" => ENABLED Dispatch(j))
    /\ [][\A j \in Jobs : pending' = Append(pending, j) => workSignal']_vars
    /\ [][(workSignal /\ ~workSignal')
             => (qpc' = "peek" /\ pending' = pending)]_vars
    /\ []((qpc = "select" /\ ~workSignal /\ ~releaseSignal /\ pending # <<>>)
             => ~Fits(used, res[Head(pending)]))

\* Two jobs are queued and one signal is pending: the second notification was
\* dropped, since nothing has reserved or released yet and the scheduler has
\* not drained.
C37_Witness ==
    /\ Len(pending) = 2
    /\ workSignal
    /\ ~releaseSignal
    /\ qpc = "select"
    /\ used = NoRes
    /\ \A j \in Jobs : reserves[j] = 0 /\ releases[j] = 0
\* C38: once Stop has returned the scheduler goroutine has exited and it
\* never reserves or launches a Run again, whatever signals arrive; and Stop
\* returns as soon as the drain in progress has finished: after the close of
\* the shutdown channel the scheduler begins no new drain.
C38_StopEndsScheduler ==
    /\ [](spc = "returned" => qpc = "stopped")
    /\ [][spc = "returned"
             => /\ qpc' = "stopped"
                /\ reserves' = reserves
                /\ runs' = runs]_vars
    /\ [][(shutdown /\ qpc = "select") => qpc' \in {"select", "stopped"}]_vars
\* C39: a job is sent on the done channel, and removed from ActiveJobs, only
\* when its status is terminal.
C39_DoneOnlyWhenTerminal ==
    [][\A j \in Jobs :
          /\ doneChan' = Append(doneChan, j) => status[j] \in Terminal
          /\ (j \in activeJobs /\ j \notin activeJobs')
                 => status[j] \in Terminal]_vars
\* C40: a job that has left ActiveJobs holds no reservation: whenever
\* ActiveJobs and PendingJobs are empty and the scheduler is idle, nothing of
\* the pool is in use.
C40_NothingUsedWhenIdle ==
    (activeJobs = {} /\ pending = <<>> /\ qpc = "select"
        /\ \A j \in Jobs : hpc[j] \notin {"creating", "created"})
            => used = NoRes
====
